---- MODULE Spec2Model ----
(***************************************************************************)
(* Model of src/config.py: the layered configuration loaders               *)
(* (read_app_config, read_tenant_config, ... read_image_config), the       *)
(* deep merge they are built on, the derived names and the model           *)
(* fingerprint.                                                            *)
(*                                                                         *)
(* Representation.                                                         *)
(*  - A string is a sequence of symbols.  The characters the code looks at *)
(*    ("/", "_", "-") are always symbols of their own; literal text free   *)
(*    of them is kept as one symbol; a hex digest is one symbol.           *)
(*  - A JSON / Python value is a tagged tuple: Str(s), None, Bool(b),      *)
(*    Map(f) for a dict (f a function from keys to values), App(a) for an  *)
(*    AppConfig tuple.                                                     *)
(*  - The dict objects held directly in a record's fields live in `heap`   *)
(*    and the field holds Ref(address): two records that hold the same     *)
(*    Ref share one mutable object.  Values nested deeper are kept by      *)
(*    value.                                                               *)
(***************************************************************************)
EXTENDS Integers, Sequences, FiniteSets, TLC

VARIABLES
    kwargs,      \* keyword arguments handed to read_app_config
    fs,          \* the files the loaders read, by kind
    pc,          \* "start" -> "app" -> "done"
    app_config,  \* NoValue, Raised or the AppConfig record
    loader,      \* the loader that was called, "none" before
    result,      \* NoValue, Raised or the record the loader returned
    parent,      \* the parent record the loader built first (NoValue if none)
    heap0,       \* the heap when the parent record had just been constructed
    heap         \* the heap when the loader returned

vars == <<kwargs, fs, pc, app_config, loader, result, parent, heap0, heap>>

----------------------------------------------------------------------------
(* Bounds of the model *)

MaxIdLen == 2       \* longest tenant name drawn
MaxEnvLen == 3      \* longest raw environment string drawn
MaxPatches == 1     \* how many places of the file tree differ from the base tree
MaxFileLen == 1     \* bytes per source file

----------------------------------------------------------------------------
(* Values *)

None == <<"n">>
Str(s) == <<"s", s>>
Bool(b) == <<"b", b>>
Map(f) == <<"m", f>>
App(a) == <<"t", a>>
Ref(a) == <<"r", a>>

IsStr(v) == v[1] = "s"
IsMap(v) == v[1] = "m"
IsRef(v) == v[1] = "r"

NoValue == [status |-> "none"]
Raised == [status |-> "raised"]
Ok(r) == [status |-> "ok", rec |-> r]
IsOk(x) == x.status = "ok"

EmptyMap == [k \in {} |-> None]

\* dict.get(key, default)
Get(d, k, default) == IF k \in DOMAIN d THEN d[k] ELSE default

\* (mutant) d.get(key) where the code subscripts
Subscript_get(d, k) == IF k \in DOMAIN d THEN d[k] ELSE <<"n">>

\* d[key]: the value, or KeyError where the key is missing
KeyError == <<"KeyError">>

Subscript(d, k) == IF k \in DOMAIN d THEN d[k] ELSE KeyError

\* Python truthiness of a value: None, "" and False are falsy
Truthy(v) ==
    CASE v[1] = "n" -> FALSE
      [] v[1] = "s" -> v[2] # <<>>
      [] v[1] = "b" -> v[2]
      [] v[1] = "m" -> DOMAIN v[2] # {}
      [] OTHER -> TRUE

\* f"{v}": the text a value is formatted to
Fmt(v) == IF v[1] = "s" THEN v[2] ELSE IF v[1] = "n" THEN <<"None">> ELSE <<"?">>

----------------------------------------------------------------------------
(* Strings *)

StringsUpTo(A, n) == UNION {[1..k -> A] : k \in 0..n}

\* s.split('/')[-1]
LastSegment(s) ==
    LET cuts == {i \in 1..Len(s) : s[i] = "/"}
    IN  IF cuts = {} THEN s
        ELSE LET last == CHOOSE i \in cuts : \A j \in cuts : j <= i
             IN  SubSeq(s, last + 1, Len(s))

\* sep.join(parts)
RECURSIVE Join(_, _)
Join(parts, sep) ==
    IF parts = <<>> THEN <<>>
    ELSE IF Len(parts) = 1 THEN parts[1]
    ELSE parts[1] \o sep \o Join(Tail(parts), sep)

\* s.replace("_", "-")
Hyphenate(s) == [i \in 1..Len(s) |-> IF s[i] = "_" THEN "-" ELSE s[i]]

\* the elements of a sequence that satisfy Keep, in order
RECURSIVE SelectTruthy(_)
SelectTruthy(vs) ==
    IF vs = <<>> THEN <<>>
    ELSE IF Truthy(vs[1]) THEN <<vs[1][2]>> \o SelectTruthy(Tail(vs))
    ELSE SelectTruthy(Tail(vs))

----------------------------------------------------------------------------
(* mergedeep.merge, Strategy.REPLACE *)

\* _deepmerge on values: keys of src are written into dst; where both sides
\* hold a mapping the merge recurses, anything else is replaced by src's value.
RECURSIVE DeepMerge(_, _)
DeepMerge(dst, src) ==
    [k \in DOMAIN dst \cup DOMAIN src |->
        IF k \notin DOMAIN src THEN dst[k]
        ELSE IF k \in DOMAIN dst /\ IsMap(dst[k]) /\ IsMap(src[k])
             THEN Map(DeepMerge(dst[k][2], src[k][2]))
             ELSE src[k]]

\* _deepmerge on a destination dict whose mapping fields are heap objects.
\* For each key of src, in turn: a mapping that meets a mapping is merged into
\* the destination's object IN PLACE; every other value replaces the field
\* with a deep copy (a mapping is copied into a fresh object).  The keys are
\* independent of each other, so the non-mapping values are written at once
\* (Overwrite) and the mapping values one by one (MergeKeys).
RECURSIVE MergeKeys(_, _, _, _)
MergeKeys(h, dst, src, ks) ==
    IF ks = {} THEN [d |-> dst, h |-> h]
    ELSE LET k == CHOOSE x \in ks : TRUE
             rest == ks \ {k}
         IN  IF k \in DOMAIN dst /\ IsRef(dst[k])
             THEN MergeKeys([h EXCEPT ![dst[k][2]] = DeepMerge(@, src[k][2])],
                            dst, src, rest)
             ELSE MergeKeys(Append(h, src[k][2]),
                            [x \in DOMAIN dst \cup {k} |->
                                IF x = k THEN Ref(Len(h) + 1) ELSE dst[x]],
                            src, rest)

Overwrite(dst, src, ks) ==
    [k \in DOMAIN dst \cup ks |-> IF k \in ks THEN src[k] ELSE dst[k]]

MergeInto(h, dst, src) ==
    LET maps == {k \in DOMAIN src : IsMap(src[k])}
    IN  MergeKeys(h, Overwrite(dst, src, DOMAIN src \ maps), src, maps)

\* merge(dst, *sources): reduce over the sources, left to right
RECURSIVE Merge(_, _, _)
Merge(h, dst, sources) ==
    IF sources = <<>> THEN [d |-> dst, h |-> h]
    ELSE LET m == MergeInto(h, dst, sources[1])
         IN  Merge(m.h, m.d, Tail(sources))

\* the value of a record as a reader sees it in heap h
View(h, rec) ==
    [k \in DOMAIN rec |-> IF IsRef(rec[k]) THEN Map(h[rec[k][2]]) ELSE rec[k]]

----------------------------------------------------------------------------
(* Record types *)

AppFields ==
    {"branch", "build_number", "commit_sha", "environment",
     "feature_engineering_jar", "fqn", "model", "pipeline", "project",
     "tenant", "debug"}

TenantFields ==
    {"app_config", "aws_account_id", "aws_region", "build_artifacts",
     "build_number", "commit_sha", "crawler_role_arn", "domain_id",
     "emr_cluster_id", "environment", "environments", "execution_role_arn",
     "fqn", "lambda_role_arn", "lambda_security_group_ids",
     "lambda_subnet_ids", "mllib_image_uri", "s3_bucket",
     "scheduler_role_arn", "studio_lifecycle_scripts", "studio_users", "tags",
     "tenant_name"}

DeploymentFields ==
    TenantFields \cup {"branch", "branches", "feature_engineering_jar"}

ProjectFields == TenantFields \cup {"project_name"}

ModelFields ==
    ProjectFields \cup
    {"base_s3_path", "model_arn", "model_base_dir", "model_binaries_artifact",
     "model_binaries_dir", "model_binaries_location", "model_binary",
     "model_binary_sha", "model_code_artifact", "model_code_location",
     "model_code_sha", "model_description", "model_entrypoint",
     "model_group_arn", "model_image_uri", "model_image_file",
     "model_inference_config", "model_metadata", "model_name",
     "model_package_arn", "model_sha", "model_source_dir", "model_version"}

PipelineFields ==
    ProjectFields \cup
    {"base_path", "base_s3_path", "feature_engineering_jar",
     "pipeline_module_location", "pipeline_module_name", "pipeline_name",
     "pipeline_name_prefix", "pipeline_schedule", "registered_model",
     "rule_name"}

GlueFields ==
    ProjectFields \cup
    {"base_s3_path", "crawler_name_prefix", "datasets", "force_create_flag",
     "table_name_prefix"}

FeaturesFields == ModelFields \cup {"features"}

ImageFields ==
    TenantFields \cup
    {"image_base_dir", "image_description", "image_name", "image_file",
     "image_uri"}

\* (mutant) a record type that drops unknown keys and fills missing fields
Construct_lenient(fields, m) ==
    [status |-> "ok",
     rec |-> [k \in fields |-> IF k \in DOMAIN m.d THEN m.d[k] ELSE None],
     h |-> m.h]

\* nt(**mapping): a namedtuple takes exactly its fields
Construct(fields, m) ==
    IF DOMAIN m.d = fields THEN [status |-> "ok", rec |-> m.d, h |-> m.h]
    ELSE [status |-> "raised", h |-> m.h]

----------------------------------------------------------------------------
(* read_app_config *)

fqn_keys == <<"tenant", "project", "model", "pipeline", "environment">>

read_app_config(kw) ==
    LET environment == Subscript(kw, "environment")
    IN
    IF environment = KeyError \/ ~IsStr(environment) THEN Raised
    ELSE
    LET computed ==
          [debug |-> Get(kw, "debug", Bool(FALSE)),
           model |-> Get(kw, "model", None),
           project |-> Get(kw, "project", None),
           pipeline |-> Get(kw, "pipeline", None),
           branch |-> Get(kw, "branch", None),
           feature_engineering_jar |-> Get(kw, "feature_engineering_jar", None),
           environment |-> Str(LastSegment(environment[2])),
           fqn |-> Str(Join(SelectTruthy([i \in 1..Len(fqn_keys) |->
                                             Get(kw, fqn_keys[i], None)]),
                            <<"-">>))]
        m == Merge(<<>>, kw, <<computed>>)
        c == Construct(AppFields, m)
    IN  IF c.status = "ok" THEN Ok(c.rec) ELSE Raised

----------------------------------------------------------------------------
(* Files *)

Absent == [status |-> "absent"]
Malformed == [status |-> "malformed"]
Doc(d) == [status |-> "doc", doc |-> d]

\* json.loads(Path(...).read_text()): raises unless the file holds a document
Readable(files, kind) == files[kind].status = "doc"

\* a loader's outcome: the record, the heap it lives in, and the parent record
\* with the heap as it was when the parent had just been constructed
Return(c, par, h0) ==
    IF c.status = "ok"
    THEN [status |-> "ok", rec |-> c.rec, h |-> c.h, parent |-> par, h0 |-> h0]
    ELSE Raised

\* config_dict(nt): nt._asdict(), a new dict holding the SAME field values
config_dict(rec) == rec

----------------------------------------------------------------------------
(* read_tenant_config *)

TenantDefaults ==
    [emr_cluster_id |-> None,
     lambda_security_group_ids |-> None,
     lambda_subnet_ids |-> None,
     studio_lifecycle_scripts |-> None,
     studio_users |-> None]

TenantComputed(app) ==
    [app_config |-> App(app),
     fqn |-> app.fqn,
     tenant_name |-> app.tenant,
     environment |-> app.environment,
     build_number |-> app.build_number,
     commit_sha |-> app.commit_sha,
     build_artifacts |-> Str(<<".", "/", "artifacts">>),
     tags |-> Map([Environment |-> app.environment,
                   BuildNumber |-> app.build_number,
                   CommitSha |-> app.commit_sha])]

\* tenant_spec.get('environments', {}).get(app_config.environment, {})
EnvironmentSpec(tenant_spec, app) ==
    LET envs == Get(tenant_spec, "environments", Map(EmptyMap))
    IN  IF ~IsMap(envs) THEN None
        ELSE Get(envs[2], app.environment[2], Map(EmptyMap))

\* (mutant) the environment entry merged first instead of last
TenantSources_envfirst(tenant_spec, app, environment_spec) ==
    <<environment_spec, tenant_spec, TenantComputed(app)>>

TenantSources(tenant_spec, app, environment_spec) ==
    <<tenant_spec, TenantComputed(app), environment_spec>>

read_tenant_config(app, files) ==
    IF ~Readable(files, "tenant") THEN Raised
    ELSE
    LET tenant_spec == files["tenant"].doc
        environment_spec == EnvironmentSpec(tenant_spec, app)
    IN  IF ~IsMap(environment_spec) THEN Raised
        ELSE Return(Construct(TenantFields,
                        Merge(<<>>, TenantDefaults,
                              TenantSources(tenant_spec, app, environment_spec[2]))),
                    NoValue, <<>>)

----------------------------------------------------------------------------
(* read_deployment_config, read_project_config, read_image_config *)

DeploymentSources(app, default_jar, deployment_spec) ==
    <<[branch |-> app.branch,
       feature_engineering_jar |->
           IF Truthy(app.feature_engineering_jar)
           THEN app.feature_engineering_jar ELSE default_jar],
      deployment_spec>>

read_deployment_config(app, files) ==
    LET tenant_config == read_tenant_config(app, files)
    IN  IF tenant_config.status # "ok" \/ ~Readable(files, "deployment") THEN Raised
        ELSE
        LET t == View(tenant_config.h, tenant_config.rec)
            default_feature_engineering_jar ==
                Str(<<"s3:", "/", "/">> \o Fmt(t["s3_bucket"])
                    \o <<"/", "artifacts", "/", "feature", "-", "engineering",
                          "-", "assembly", "-">>
                    \o Fmt(app.commit_sha) \o <<".jar">>)
        IN  Return(Construct(DeploymentFields,
                       Merge(tenant_config.h, config_dict(tenant_config.rec),
                             DeploymentSources(app, default_feature_engineering_jar,
                                               files["deployment"].doc))),
                   tenant_config.rec, tenant_config.h)

read_project_config(app, files) ==
    LET tenant_config == read_tenant_config(app, files)
    IN  IF tenant_config.status # "ok" \/ ~Readable(files, "project") THEN Raised
        ELSE Return(Construct(ProjectFields,
                        Merge(tenant_config.h, config_dict(tenant_config.rec),
                              <<files["project"].doc>>)),
                    tenant_config.rec, tenant_config.h)

read_image_config(app, files) ==
    LET tenant_config == read_tenant_config(app, files)
    IN  IF tenant_config.status # "ok" \/ ~Readable(files, "docker") THEN Raised
        ELSE Return(Construct(ImageFields,
                        Merge(tenant_config.h, config_dict(tenant_config.rec),
                              <<files["docker"].doc>>)),
                    tenant_config.rec, tenant_config.h)

----------------------------------------------------------------------------
(* Content hashing *)

\* hashlib.sha1(data).hexdigest(), taken as an injective function of the data;
\* the digest is one symbol of the string it is formatted into
Sha1(data) == <<"sha1", data>>

\* file names are strings over character codes; a < b is str.__lt__
LexLess(a, b) ==
    \E i \in 1..Len(b) :
        /\ \A j \in 1..(i - 1) : j <= Len(a) /\ a[j] = b[j]
        /\ (i > Len(a) \/ a[i] < b[i])

\* os.listdir(dir): the names of the entries, in the file system's own order
ListDir(d, order) == SelectSeq(order, LAMBDA n : n \in DOMAIN d)

\* (mutant) the listing hashed in the order the file system gave
SortNames_unsorted(names) == names

\* model_files.sort()
SortNames(names) == SortSeq(names, LexLess)

\* os.path.isfile(p)
IsFile(entry) == entry[1] = "f"

\* the loop over model_files: sha1.update(f.read()) for every regular file
RECURSIVE ReadAll(_, _)
ReadAll(d, names) ==
    IF names = <<>> THEN <<>>
    ELSE (IF IsFile(d[names[1]]) THEN d[names[1]][2] ELSE <<>>)
         \o ReadAll(d, Tail(names))

model_code_hash(files, model_src_dir, order) ==
    IF model_src_dir \notin DOMAIN files.dirs THEN Sha1(<<>>)
    ELSE LET d == files.dirs[model_src_dir]
             model_files == SortNames(ListDir(d, order))
         IN  Sha1(ReadAll(d, model_files))

\* open(f"{model_binaries_dir}/{model_file}", 'rb') succeeds on a regular file
CanOpen(files, dir, name) ==
    /\ dir \in DOMAIN files.dirs
    /\ name \in DOMAIN files.dirs[dir]
    /\ IsFile(files.dirs[dir][name])

model_binary_hash(files, model_binaries_dir, model_file) ==
    Sha1(files.dirs[model_binaries_dir][model_file][2])

\* (mutant) the declared version left out of the fingerprint
ModelSha_noversion(model_binary_sha, model_code_sha, model_version) ==
    Sha1(<<model_binary_sha, model_code_sha>>)

\* model_sha: sha1 of f"{model_binary_sha}{model_code_sha}{model_version}"
ModelSha(model_binary_sha, model_code_sha, model_version) ==
    Sha1(<<model_binary_sha, model_code_sha>> \o Fmt(model_version))

----------------------------------------------------------------------------
(* read_model_config *)

Slash(a, b) == a \o <<"/">> \o b
Dash(a, b) == a \o <<"-">> \o b

\* f"{app_config.tenant}/{app_config.project}/{app_config.model}"
BasePath(app) == Slash(Slash(Fmt(app.tenant), Fmt(app.project)), Fmt(app.model))

\* f"{tenant}-{project}-{model}-{environment}" with the given model segment
BaseS3Key(app, model_segment) ==
    Dash(Dash(Dash(Fmt(app.tenant), Fmt(app.project)), model_segment),
         Fmt(app.environment))

S3Url(bucket, key) == <<"s3:", "/", "/">> \o Fmt(bucket) \o <<"/">> \o key

BaseS3Path(bucket, app) ==
    Hyphenate(S3Url(bucket, BaseS3Key(app, Fmt(app.model))))

ModelComputed(app, model_spec, hashes, base_s3_path) ==
    [model_arn |-> None,
     model_code_artifact |-> None,
     model_code_location |-> None,
     model_binaries_artifact |-> None,
     model_binaries_location |-> None,
     model_package_arn |-> None,
     model_group_arn |-> None,
     model_sha |-> Str(<<hashes.model_sha>>),
     model_entrypoint |-> Get(model_spec, "model_entrypoint", None),
     model_image_uri |-> Get(model_spec, "model_image_uri", None),
     model_image_file |-> Get(model_spec, "model_image_file", None),
     model_binary |-> Get(model_spec, "model_binary", None),
     model_binary_sha |-> Str(<<hashes.model_binary_sha>>),
     model_code_sha |-> Str(<<hashes.model_code_sha>>),
     model_base_dir |-> Str(BasePath(app)),
     model_source_dir |->
         Str(Slash(BasePath(app),
                   Fmt(Get(model_spec, "model_source_dir", Str(<<"model">>))))),
     model_binaries_dir |->
         Str(Slash(BasePath(app),
                   Fmt(Get(model_spec, "model_binaries_dir", Str(<<"model">>))))),
     base_s3_path |-> Str(base_s3_path)]

ModelSources(model_spec, computed) == <<model_spec, computed>>

\* the three digests read_model_config computes from model.json and the files,
\* or Raised where the declared binary cannot be opened or model_version is missing
ModelHashes(files, model_spec, order) ==
    LET src_dir == Fmt(Get(model_spec, "model_source_dir", Str(<<"model">>)))
        bin_dir == Fmt(Get(model_spec, "model_binaries_dir", Str(<<"model">>)))
        declared == Truthy(Get(model_spec, "model_binary", None))
        model_file == Fmt(Get(model_spec, "model_binary", None))
        model_version == Subscript(model_spec, "model_version")
    IN  IF declared /\ ~CanOpen(files, bin_dir, model_file) THEN Raised
        ELSE IF model_version = KeyError THEN Raised
        ELSE
        LET model_code_sha == model_code_hash(files, src_dir, order)
            model_binary_sha ==
                IF declared THEN model_binary_hash(files, bin_dir, model_file)
                ELSE Sha1(<<>>)
        IN  [status |-> "ok",
             model_code_sha |-> model_code_sha,
             model_binary_sha |-> model_binary_sha,
             model_sha |-> ModelSha(model_binary_sha, model_code_sha, model_version)]

read_model_config(app, files, order) ==
    LET project_config == read_project_config(app, files)
    IN  IF project_config.status # "ok" \/ ~Readable(files, "model") THEN Raised
        ELSE
        LET model_spec == files["model"].doc
            hashes == ModelHashes(files, model_spec, order)
        IN  IF hashes.status # "ok" THEN Raised
            ELSE
            LET p == View(project_config.h, project_config.rec)
                base_s3_path == BaseS3Path(p["s3_bucket"], app)
            IN  Return(Construct(ModelFields,
                           Merge(project_config.h, config_dict(project_config.rec),
                                 ModelSources(model_spec,
                                     ModelComputed(app, model_spec, hashes,
                                                   base_s3_path)))),
                       project_config.rec, project_config.h)

----------------------------------------------------------------------------
(* read_pipeline_config, read_dataset_config, read_features_config *)

\* f"{tenant}-{project}-{model}-{pipeline}-{environment}"
PipelineName(app) ==
    Dash(Dash(Dash(Dash(Fmt(app.tenant), Fmt(app.project)), Fmt(app.model)),
              Fmt(app.pipeline)),
         Fmt(app.environment))

\* pipeline_spec['pipeline_schedule'].get(app_config.pipeline)
PipelineSchedule(schedule, app) ==
    IF IsStr(app.pipeline) THEN Get(schedule, app.pipeline[2], None) ELSE None

PipelineComputed(app, bucket, schedule) ==
    [base_path |-> Str(BasePath(app)),
     base_s3_path |-> Str(BaseS3Path(bucket, app)),
     feature_engineering_jar |-> app.feature_engineering_jar,
     pipeline_name_prefix |-> Str(Hyphenate(PipelineName(app))),
     pipeline_name |-> Str(Hyphenate(PipelineName(app))),
     rule_name |-> Str(Hyphenate(PipelineName(app))),
     pipeline_module_location |->
         Str(<<".", "/">> \o BasePath(app) \o <<"/", "pipelines", "/">>
             \o Fmt(app.pipeline) \o <<".py">>),
     pipeline_module_name |->
         Str(Fmt(app.tenant) \o <<".">> \o Fmt(app.project) \o <<".">>
             \o Fmt(app.model) \o <<".">> \o Fmt(app.pipeline)),
     pipeline_schedule |-> PipelineSchedule(schedule, app),
     registered_model |-> None]

read_pipeline_config(app, files) ==
    LET project_config == read_project_config(app, files)
    IN  IF project_config.status # "ok" \/ ~Readable(files, "pipeline") THEN Raised
        ELSE
        LET pipeline_spec == files["pipeline"].doc
            schedule == Subscript(pipeline_spec, "pipeline_schedule")
        IN  IF schedule = KeyError \/ ~IsMap(schedule) THEN Raised
            ELSE
            LET p == View(project_config.h, project_config.rec)
            IN  Return(Construct(PipelineFields,
                           Merge(project_config.h, config_dict(project_config.rec),
                                 <<pipeline_spec,
                                   PipelineComputed(app, p["s3_bucket"],
                                       schedule[2])>>)),
                       project_config.rec, project_config.h)

DatasetComputed(app, bucket, model_name) ==
    [base_s3_path |-> Str(S3Url(bucket, BaseS3Key(app, Fmt(model_name)))),
     table_name_prefix |-> Str(BaseS3Key(app, Fmt(model_name))),
     crawler_name_prefix |->
         Str(<<"pi", "_", "risk", "_", "ml", "_">> \o BaseS3Key(app, Fmt(model_name))),
     force_create_flag |-> Bool(FALSE)]

read_dataset_config(app, files) ==
    LET project_config == read_project_config(app, files)
    IN  IF \/ project_config.status # "ok"
           \/ ~Readable(files, "dataset")
           \/ ~Readable(files, "model")
        THEN Raised
        ELSE
        LET glue_spec == files["dataset"].doc
            model_name == Subscript(files["model"].doc, "model_name")
        IN  IF model_name = KeyError THEN Raised
            ELSE
            LET p == View(project_config.h, project_config.rec)
            IN  Return(Construct(GlueFields,
                           Merge(project_config.h, config_dict(project_config.rec),
                                 <<glue_spec,
                                   DatasetComputed(app, p["s3_bucket"], model_name)>>)),
                       project_config.rec, project_config.h)

read_features_config(app, files, order) ==
    LET model_config == read_model_config(app, files, order)
    IN  IF model_config.status # "ok" \/ ~Readable(files, "features") THEN Raised
        ELSE Return(Construct(FeaturesFields,
                        Merge(model_config.h, config_dict(model_config.rec),
                              <<files["features"].doc>>)),
                    model_config.rec, model_config.h)

----------------------------------------------------------------------------
(* The inputs: keyword arguments and file trees *)

BaseKwargs ==
    [tenant |-> Str(<<"acme">>), project |-> Str(<<"risk">>),
     model |-> Str(<<"v1">>), pipeline |-> Str(<<"daily">>),
     environment |-> Str(<<"prod">>), build_number |-> Str(<<"7">>),
     commit_sha |-> Str(<<"c0ffee">>), branch |-> Str(<<"main">>)]

CurrentEnv == <<"prod">>
OtherEnv == <<"dev">>

BaseDocs ==
    [tenant |->
        [aws_account_id |-> Str(<<"1234">>), aws_region |-> Str(<<"eu">>),
         crawler_role_arn |-> Str(<<"crawler">>), domain_id |-> Str(<<"d1">>),
         execution_role_arn |-> Str(<<"exec">>),
         lambda_role_arn |-> Str(<<"lambda">>),
         mllib_image_uri |-> Str(<<"mllib">>),
         s3_bucket |-> Str(<<"ml", "_", "bkt">>),
         scheduler_role_arn |-> Str(<<"sched">>),
         environments |-> Map(EmptyMap)],
     deployment |-> [branches |-> Str(<<"main">>)],
     project |-> [project_name |-> Str(<<"risk">>)],
     model |->
        [model_description |-> Str(<<"churn model">>),
         model_inference_config |-> Str(<<"cfg">>),
         model_metadata |-> Str(<<"meta">>),
         model_name |-> Str(<<"churn", "_", "v1">>),
         model_version |-> Str(<<"1">>)],
     pipeline |-> [pipeline_schedule |-> Map(<<"daily">> :> Str(<<"cron">>))],
     dataset |-> [datasets |-> Str(<<"ds">>)],
     features |-> [features |-> Str(<<"f1">>)],
     docker |->
        [image_base_dir |-> Str(<<"mllib">>), image_description |-> Str(<<"img">>),
         image_name |-> Str(<<"analytics">>), image_file |-> Str(<<"Dockerfile">>),
         image_uri |-> Str(<<"uri">>)]]

LeafKinds == {"deployment", "model", "pipeline", "dataset", "features", "docker"}
Kinds == {"tenant", "project"} \cup LeafKinds

\* A patch is one difference from the base tree.
NoPatch == <<"none">>
SetKey(k, v) == <<"set", k, v>>
DropKey(k) == <<"drop", k>>

PatchKeys == {"s3_bucket", "tags", "fqn", "studio_users", "bogus"}
PatchVals ==
    {Str(<<"x">>), Map([Team |-> Str(<<"x">>)]), Map([Environment |-> Str(<<"x">>)])}
SetPatches(keys) == {SetKey(k, v) : k \in keys, v \in PatchVals}

Places == {"tenant", "env", "other", "project", "leaf"}

PatchesAt(place) ==
    CASE place = "tenant" ->
            SetPatches(PatchKeys) \cup
            {DropKey("environments"), DropKey("aws_account_id"),
             <<"absent">>, <<"malformed">>}
      [] place = "env" ->
            SetPatches(PatchKeys \cup {"aws_account_id"}) \cup {<<"entry">>}
      [] place = "other" -> SetPatches({"s3_bucket", "tags"})
      [] place = "project" ->
            SetPatches(PatchKeys) \cup
            {DropKey("project_name"), <<"absent">>, <<"malformed">>}
      [] place = "leaf" ->
            SetPatches(PatchKeys \cup {"branch"}) \cup
            {DropKey("pipeline_schedule"), DropKey("model_version"),
             DropKey("model_name"), DropKey("datasets"),
             SetKey("pipeline_schedule", Map(EmptyMap)),
             <<"absent">>, <<"malformed">>}

\* every way to patch at most MaxPatches places
PatchAssignments ==
    UNION {
        {[pl \in Places |-> IF pl \in S THEN q[pl] ELSE NoPatch] :
            q \in {f \in [S -> UNION {PatchesAt(pl) : pl \in S}] :
                     \A pl \in S : f[pl] \in PatchesAt(pl)}} :
        S \in {T \in SUBSET Places : Cardinality(T) <= MaxPatches}}

Apply(doc, patch) ==
    CASE patch[1] = "set" ->
            [k \in DOMAIN doc \cup {patch[2]} |->
                IF k = patch[2] THEN patch[3] ELSE doc[k]]
      [] patch[1] = "drop" -> [k \in DOMAIN doc \ {patch[2]} |-> doc[k]]
      [] OTHER -> doc

FileOf(doc, patch) ==
    CASE patch[1] = "absent" -> Absent
      [] patch[1] = "malformed" -> Malformed
      [] OTHER -> Doc(Apply(doc, patch))

\* the `environments` mapping of tenant.json
Entry(patch) == Map(Apply(EmptyMap, patch))
Environments(env, other) ==
    Map([e \in (IF env = NoPatch THEN {} ELSE {CurrentEnv})
                 \cup (IF other = NoPatch THEN {} ELSE {OtherEnv}) |->
            IF e = CurrentEnv THEN Entry(env) ELSE Entry(other)])

TenantDoc(env, other) ==
    [BaseDocs["tenant"] EXCEPT !["environments"] = Environments(env, other)]

\* file names, as character codes: "a", "ab", "b"
FileNames == {<<1>>, <<1, 2>>, <<2>>}
Bytes == StringsUpTo({0, 1}, MaxFileLen)
SourceDirName == <<"model">>

\* a regular file, or a subdirectory holding at most one file of its own
Entries ==
    {<<"f", b>> : b \in Bytes}
    \cup {<<"d", sub>> : sub \in {EmptyMap} \cup {(<<1>> :> b) : b \in Bytes}}

Directories == UNION {[N -> Entries] : N \in SUBSET FileNames}

BaseDirs == (SourceDirName :> (<<1>> :> <<"f", <<0>>>>))

Tree(p, model_doc, dirs) ==
    [k \in Kinds \cup {"dirs"} |->
        CASE k = "dirs" -> dirs
          [] k = "tenant" -> FileOf(TenantDoc(p["env"], p["other"]), p["tenant"])
          [] k = "project" -> FileOf(BaseDocs[k], p["project"])
          [] k = "model" -> FileOf(model_doc, p["leaf"])
          [] OTHER -> FileOf(BaseDocs[k], p["leaf"])]

NoPatches == [pl \in Places |-> NoPatch]

\* the orders a file system may enumerate names in
Orders ==
    {o \in [1..Cardinality(FileNames) -> FileNames] :
        \A i, j \in DOMAIN o : i # j => o[i] # o[j]}

----------------------------------------------------------------------------
(* Initial states *)

Idle ==
    /\ pc = "start"
    /\ app_config = NoValue
    /\ loader = "none"
    /\ result = NoValue
    /\ parent = NoValue
    /\ heap0 = <<>>
    /\ heap = <<>>

\* documents vary, the identity is fixed
InitMerge ==
    /\ kwargs = BaseKwargs
    /\ fs \in {Tree(p, BaseDocs["model"], BaseDirs) : p \in PatchAssignments}
    /\ Idle

IdAlphabet == {"a", "_"}
EnvAlphabet == {"p", "/"}

\* one departure from the base arguments: keys left out, keys added or replaced
KwargsVariants ==
    {<<{k}, EmptyMap>> : k \in {"project", "pipeline", "environment", "build_number"}}
    \cup {<<{}, extra>> :
            extra \in {EmptyMap, [model |-> Str(<<>>)], [model |-> None],
                       [model |-> Str(<<"m", "_", "x">>)], [debug |-> Bool(TRUE)],
                       [bogus |-> Str(<<"x">>)]}}

KwargsSet ==
    {[k \in (DOMAIN BaseKwargs \ v[1]) \cup DOMAIN v[2] |->
        CASE k \in DOMAIN v[2] -> v[2][k]
          [] k = "tenant" -> Str(t)
          [] k = "environment" -> Str(e)
          [] OTHER -> BaseKwargs[k]] :
        t \in StringsUpTo(IdAlphabet, MaxIdLen),
        e \in StringsUpTo(EnvAlphabet, MaxEnvLen),
        v \in KwargsVariants}

\* the identity varies, the documents are the base tree
InitIdentity ==
    /\ kwargs \in KwargsSet
    /\ fs = Tree(NoPatches, BaseDocs["model"], BaseDirs)
    /\ Idle

ModelDocs ==
    {[k \in DOMAIN BaseDocs["model"] \cup DOMAIN extra |->
        IF k = "model_version" THEN Str(v)
        ELSE IF k \in DOMAIN extra THEN extra[k]
        ELSE BaseDocs["model"][k]] :
        v \in {<<"1">>},
        extra \in {EmptyMap, [model_binary |-> Str(<<1>>)]}}

\* the model directory, the declared version and the declared binary vary
InitHash ==
    /\ kwargs = BaseKwargs
    /\ fs \in {Tree(NoPatches, m, dirs) :
                 m \in ModelDocs,
                 dirs \in {EmptyMap} \cup {(SourceDirName :> d) : d \in Directories}}
    /\ Idle

----------------------------------------------------------------------------
(* Operations *)

ReadAppConfig ==
    /\ pc = "start"
    /\ app_config' = read_app_config(kwargs)
    /\ pc' = "app"
    /\ UNCHANGED <<kwargs, fs, loader, result, parent, heap0, heap>>

\* one loader is called with the app_config built before
Call(name, r) ==
    /\ pc = "app"
    /\ IsOk(app_config)
    /\ pc' = "done"
    /\ loader' = name
    /\ result' = IF r.status = "ok" THEN Ok(r.rec) ELSE Raised
    /\ parent' = IF r.status = "ok" THEN r.parent ELSE NoValue
    /\ heap0' = IF r.status = "ok" THEN r.h0 ELSE <<>>
    /\ heap' = IF r.status = "ok" THEN r.h ELSE <<>>
    /\ UNCHANGED <<kwargs, fs, app_config>>

ReadTenantConfig == Call("tenant", read_tenant_config(app_config.rec, fs))

ReadDeploymentConfig == Call("deployment", read_deployment_config(app_config.rec, fs))

ReadProjectConfig == Call("project", read_project_config(app_config.rec, fs))

ReadModelConfig ==
    \E order \in Orders : Call("model", read_model_config(app_config.rec, fs, order))

ReadPipelineConfig == Call("pipeline", read_pipeline_config(app_config.rec, fs))

ReadDatasetConfig == Call("dataset", read_dataset_config(app_config.rec, fs))

ReadFeaturesConfig ==
    \E order \in Orders :
        Call("features", read_features_config(app_config.rec, fs, order))

ReadImageConfig == Call("image", read_image_config(app_config.rec, fs))

Next ==
    \/ ReadAppConfig
    \/ ReadTenantConfig
    \/ ReadDeploymentConfig
    \/ ReadProjectConfig
    \/ ReadModelConfig
    \/ ReadPipelineConfig
    \/ ReadDatasetConfig
    \/ ReadFeaturesConfig
    \/ ReadImageConfig

Init == InitMerge \/ InitIdentity

Spec == Init /\ [][Next]_vars

\* the loaders that hash the model directory
NextHash ==
    \/ ReadAppConfig
    \/ ReadModelConfig
    \/ ReadFeaturesConfig

SpecHash == InitHash /\ [][NextHash]_vars

----------------------------------------------------------------------------
(* What a caller observes *)

Returned == pc = "done" /\ IsOk(result)
Out == View(heap, result.rec)
app == app_config.rec

ModelSpec == fs["model"].doc
SourceDir == Fmt(Get(ModelSpec, "model_source_dir", Str(<<"model">>)))
SourceDirExists == SourceDir \in DOMAIN fs.dirs
RegularFiles(d) == {n \in DOMAIN d : d[n][1] = "f"}
SubDirs(d) == {n \in DOMAIN d : d[n][1] = "d"}

\* the bytes of the given files of d, one file after the other, names ascending
RECURSIVE ConcatAscending(_, _)
ConcatAscending(d, names) ==
    IF names = {} THEN <<>>
    ELSE LET least == CHOOSE n \in names : \A m \in names \ {n} : LexLess(n, m)
         IN  d[least][2] \o ConcatAscending(d, names \ {least})

----------------------------------------------------------------------------
(* Claims about the content hashes (SpecHash) *)

\* C3: model_code_sha is the hash of the concatenated bytes of exactly the
\* regular files directly inside the source directory, in ascending file-name
\* order, whatever order the file system lists them in (the loader is called
\* with every order); subdirectories add nothing; a missing directory gives
\* the hash of the empty input.
C3_SourceHashOfSortedRegularFiles ==
    (Returned /\ loader = "model") =>
        Out["model_code_sha"] =
            Str(<<Sha1(IF SourceDirExists
                       THEN ConcatAscending(fs.dirs[SourceDir],
                                            RegularFiles(fs.dirs[SourceDir]))
                       ELSE <<>>)>>)

\* two regular files with different contents, and a subdirectory with a file
C3_Witness ==
    /\ Returned /\ loader = "model"
    /\ SourceDirExists
    /\ \E a, b \in RegularFiles(fs.dirs[SourceDir]) :
          /\ a # b
          /\ fs.dirs[SourceDir][a][2] = <<1>>
          /\ fs.dirs[SourceDir][b][2] = <<0>>
    /\ \E n \in SubDirs(fs.dirs[SourceDir]) : DOMAIN fs.dirs[SourceDir][n][2] # {}

\* the file tree after byte i of regular file n of the source directory changed
WithByteChanged(n, i) ==
    [fs EXCEPT !["dirs"][SourceDir][n] = <<"f", [@[2] EXCEPT ![i] = 1 - @]>>]

\* the file tree after byte i of file m in subdirectory n changed
WithNestedByteChanged(n, m, i) ==
    [fs EXCEPT !["dirs"][SourceDir][n] = <<"d", [@[2] EXCEPT ![m][i] = 1 - @]>>]

OtherVersions == {Str(<<"1">>), Str(<<"2">>), Str(<<"1", "0">>)} \ {ModelSpec["model_version"]}

\* the model_sha of another state of the files, for every listing order
ShaDiffers(files, model_spec) ==
    \A order \in Orders :
        LET hashes == ModelHashes(files, model_spec, order)
        IN  hashes.status = "ok" /\ Str(<<hashes.model_sha>>) # Out["model_sha"]

ChangedByteInRegularFileShows ==
    SourceDirExists =>
        \A n \in RegularFiles(fs.dirs[SourceDir]) :
            \A i \in 1..Len(fs.dirs[SourceDir][n][2]) :
                ShaDiffers(WithByteChanged(n, i), ModelSpec)

ChangedVersionShows ==
    \A v \in OtherVersions :
        ShaDiffers(fs, [ModelSpec EXCEPT !["model_version"] = v])

\* C2 (as amended): model_sha changes whenever one byte changes in a regular
\* file located directly inside the model source directory, and whenever the
\* declared model_version string changes.
C2_ShaChangesWithDirectFilesAndVersion ==
    (Returned /\ loader = "model") =>
        ChangedByteInRegularFileShows /\ ChangedVersionShows

C2_Witness ==
    /\ Returned /\ loader = "model"
    /\ SourceDirExists
    /\ \E n \in RegularFiles(fs.dirs[SourceDir]) : fs.dirs[SourceDir][n][2] # <<>>

\* C2 (as stated): model_sha changes whenever one byte changes in any file
\* under the model source directory, files in its subdirectories included.
C2_ShaChangesWithAnyFileUnderDir ==
    (Returned /\ loader = "model") =>
        /\ ChangedByteInRegularFileShows
        /\ ChangedVersionShows
        /\ SourceDirExists =>
              \A n \in SubDirs(fs.dirs[SourceDir]) :
                  \A m \in DOMAIN fs.dirs[SourceDir][n][2] :
                      \A i \in 1..Len(fs.dirs[SourceDir][n][2][m]) :
                          ShaDiffers(WithNestedByteChanged(n, m, i), ModelSpec)

----------------------------------------------------------------------------
(* Claims about the loaders (Spec) *)

TenantSpec == fs["tenant"].doc

HasEnvEntry ==
    /\ "environments" \in DOMAIN TenantSpec
    /\ IsMap(TenantSpec["environments"])
    /\ app.environment[2] \in DOMAIN TenantSpec["environments"][2]

\* the `environments` entry of the current environment
EnvEntry == TenantSpec["environments"][2][app.environment[2]][2]

\* the tenant-wide values: in-code defaults, tenant.json, computed fields
TenantWide == DeepMerge(DeepMerge(TenantDefaults, TenantSpec), TenantComputed(app))

\* the files a loader reads, and those among them it merges into its record
Reads(l) ==
    CASE l = "tenant" -> {"tenant"}
      [] l = "deployment" -> {"tenant", "deployment"}
      [] l = "project" -> {"tenant", "project"}
      [] l = "model" -> {"tenant", "project", "model"}
      [] l = "pipeline" -> {"tenant", "project", "pipeline"}
      [] l = "dataset" -> {"tenant", "project", "dataset", "model"}
      [] l = "features" -> {"tenant", "project", "model", "features"}
      [] l = "image" -> {"tenant", "docker"}

Merges(l) == IF l = "dataset" THEN Reads(l) \ {"model"} ELSE Reads(l)

\* C1 (as stated): in every returned record the fields computed in code hold
\* the computed value whatever the JSON documents say, and a field with a
\* hardcoded default holds the value of the JSON document that sets it.
C1_ComputedWinsOverFilesOverDefaults ==
    Returned =>
        /\ \A k \in {"fqn", "tenant_name", "environment", "build_number",
                     "commit_sha", "build_artifacts"} :
              Out[k] = TenantComputed(app)[k]
        /\ IsMap(Out["tags"])
        /\ \A t \in {"Environment", "BuildNumber", "CommitSha"} :
              /\ t \in DOMAIN Out["tags"][2]
              /\ Out["tags"][2][t] = TenantComputed(app)["tags"][2][t]
        /\ loader = "deployment" => Out["branch"] = app.branch
        /\ \A k \in DOMAIN TenantDefaults \cap DOMAIN TenantSpec :
              (loader = "tenant" /\ ~(HasEnvEntry /\ k \in DOMAIN EnvEntry))
                  => Out[k] = TenantSpec[k]

\* C6 (as stated): the tags of every returned record are a mapping that holds
\* the keys Environment, BuildNumber and CommitSha.
C6_TagsHoldBuildKeys ==
    Returned =>
        /\ IsMap(Out["tags"])
        /\ {"Environment", "BuildNumber", "CommitSha"} \subseteq DOMAIN Out["tags"][2]

\* the entry's value for field k is what the record holds: in place of the
\* tenant-wide value, or merged into it key by key where both are mappings
TakenFromEntry(k) ==
    IF IsMap(EnvEntry[k]) /\ k \in DOMAIN TenantWide /\ IsMap(TenantWide[k])
    THEN /\ IsMap(Out[k])
         /\ DOMAIN Out[k][2] = DOMAIN TenantWide[k][2] \cup DOMAIN EnvEntry[k][2]
         /\ \A j \in DOMAIN EnvEntry[k][2] : Out[k][2][j] = EnvEntry[k][2][j]
         /\ \A j \in DOMAIN TenantWide[k][2] \ DOMAIN EnvEntry[k][2] :
               Out[k][2][j] = TenantWide[k][2][j]
    ELSE Out[k] = EnvEntry[k]

\* tenant.json with the entries of all other environments taken out
WithoutOtherEntries ==
    IF Readable(fs, "tenant") /\ "environments" \in DOMAIN TenantSpec
       /\ IsMap(TenantSpec["environments"])
    THEN [fs EXCEPT !["tenant"].doc["environments"] =
            Map([e \in DOMAIN @[2] \cap {app.environment[2]} |-> @[2][e]])]
    ELSE fs

\* C7: read_tenant_config gives every field of the current environment's
\* entry the highest precedence, and the entries of other environments change
\* nothing but the `environments` field (nor whether a record is returned).
C7_EnvironmentEntryOverrides ==
    (pc = "done" /\ loader = "tenant") =>
        LET alone == read_tenant_config(app, WithoutOtherEntries)
        IN  /\ alone.status = result.status
            /\ Returned =>
                  /\ HasEnvEntry => \A k \in DOMAIN EnvEntry : TakenFromEntry(k)
                  /\ \A k \in TenantFields \ {"environments"} :
                        View(alone.h, alone.rec)[k] = Out[k]

\* the entry replaces the tenant-wide s3_bucket
C7_Witness ==
    /\ Returned /\ loader = "tenant"
    /\ HasEnvEntry
    /\ "s3_bucket" \in DOMAIN EnvEntry
    /\ EnvEntry["s3_bucket"] # TenantSpec["s3_bucket"]
    /\ Out["s3_bucket"] = EnvEntry["s3_bucket"]

\* the fields a computed step reads with d[key]
RequiredFieldsPresent ==
    /\ "environment" \in DOMAIN kwargs
    /\ loader \in {"model", "features"} =>
          /\ "model_version" \in DOMAIN ModelSpec
          /\ Truthy(Get(ModelSpec, "model_binary", None)) =>
                CanOpen(fs, Fmt(Get(ModelSpec, "model_binaries_dir", Str(<<"model">>))),
                        Fmt(ModelSpec["model_binary"]))
    /\ loader = "dataset" => "model_name" \in DOMAIN ModelSpec
    /\ loader = "pipeline" => "pipeline_schedule" \in DOMAIN fs["pipeline"].doc

ScheduleHasEntry ==
    /\ IsStr(app.pipeline)
    /\ app.pipeline[2] \in DOMAIN fs["pipeline"].doc["pipeline_schedule"][2]

\* C8 (as amended): a loader returns a record only if every file it reads is
\* present and valid JSON and every field a computed step subscripts is
\* present (pipeline.json's pipeline_schedule among them); a pipeline_schedule
\* mapping without an entry for the current pipeline is no error: the record
\* is returned with pipeline_schedule null.
C8_RecordOnlyWithoutErrors ==
    /\ IsOk(app_config) => "environment" \in DOMAIN kwargs
    /\ Returned =>
          /\ \A f \in Reads(loader) : Readable(fs, f)
          /\ RequiredFieldsPresent
          /\ (loader = "pipeline" /\ ~ScheduleHasEntry)
                => Out["pipeline_schedule"] = None

\* model.json lacks model_name and read_dataset_config fails
C8_Witness ==
    /\ pc = "done" /\ loader = "dataset"
    /\ \A f \in Reads("dataset") : Readable(fs, f)
    /\ "model_name" \notin DOMAIN ModelSpec
    /\ result = Raised

\* C8 (as stated): ... the pipeline_schedule entry keyed by the current
\* pipeline name counts as a required field: without it no record is returned.
C8_RecordOnlyWithScheduleEntry ==
    Returned =>
        /\ \A f \in Reads(loader) : Readable(fs, f)
        /\ RequiredFieldsPresent
        /\ loader = "pipeline" => ScheduleHasEntry

\* C9 (as stated): after a child loader returned, every field of the parent
\* record has the value it had when the parent was constructed, and no
\* mapping object is held by both the parent and the child record.
C9_ParentKeptAndNotShared ==
    (Returned /\ loader # "tenant") =>
        /\ \A k \in DOMAIN parent : View(heap, parent)[k] = View(heap0, parent)[k]
        /\ \A k \in DOMAIN parent : IsRef(parent[k]) => result.rec[k] # parent[k]

\* the record type each file is merged into
FieldsOf(f) ==
    CASE f = "tenant" -> TenantFields
      [] f = "deployment" -> DeploymentFields
      [] f = "project" -> ProjectFields
      [] f = "model" -> ModelFields
      [] f = "pipeline" -> PipelineFields
      [] f = "dataset" -> GlueFields
      [] f = "features" -> FeaturesFields
      [] f = "docker" -> ImageFields

\* the fields of that record type which the parent record brings along
InheritedBy(f) ==
    CASE f = "tenant" -> {}
      [] f = "features" -> ModelFields
      [] f \in {"deployment", "project", "docker"} -> TenantFields
      [] OTHER -> ProjectFields

\* the fields that loader's code sets itself
SetInCode(f) ==
    CASE f = "tenant" -> DOMAIN TenantDefaults \cup DOMAIN TenantComputed(app)
      [] f = "deployment" -> DOMAIN DeploymentSources(app, None, EmptyMap)[1]
      [] f = "model" -> DOMAIN ModelComputed(app, EmptyMap, ModelHashes(fs, ModelSpec, <<>>), <<>>)
      [] f = "pipeline" -> DOMAIN PipelineComputed(app, None, EmptyMap)
      [] f = "dataset" -> DOMAIN DatasetComputed(app, None, None)
      [] OTHER -> {}

KeysFromFile(f) ==
    DOMAIN fs[f].doc \cup (IF f = "tenant" /\ HasEnvEntry THEN DOMAIN EnvEntry ELSE {})

C4_FqnJoinsRecordFields ==
    IsOk(app_config) =>
        app.fqn = Str(Join(SelectTruthy(<<app.tenant, app.project, app.model,
                                          app.pipeline, app.environment>>),
                           <<"-">>))

NoUnderscore(v) == IsStr(v) /\ \A i \in 1..Len(v[2]) : v[2][i] # "_"

\* C5 (as stated): base_s3_path, pipeline_name, pipeline_name_prefix and
\* rule_name of the records of read_model_config, read_pipeline_config and
\* read_dataset_config hold no underscore.
C5_NoUnderscoreInResourceNames ==
    (Returned /\ loader \in {"model", "pipeline", "dataset"}) =>
        /\ NoUnderscore(Out["base_s3_path"])
        /\ loader = "pipeline" =>
              /\ NoUnderscore(Out["pipeline_name"])
              /\ NoUnderscore(Out["pipeline_name_prefix"])
              /\ NoUnderscore(Out["rule_name"])

====
